---- MODULE Spec2Model ----
(***************************************************************************)
(* RPiFanControl: the PWMFan controller of src/RPiFanControl.py.           *)
(*                                                                         *)
(* Execution contexts.  updateFan runs either in a Timer thread (context   *)
(* "timer") or as a direct call on the main thread (context "main", which  *)
(* also runs start()).  Python signal handlers (_sig) run on the main      *)
(* thread between two of its bytecodes: while a handler runs, the main     *)
(* thread's own call is suspended and the Timer thread keeps running.      *)
(* Every action is one statement of the code with at most one access to a  *)
(* field another context writes.                                           *)
(*                                                                         *)
(* Temperatures are kept in millidegrees (the integer read from the        *)
(* sensor file); the code's float `int(...) / 1000` is compared with the   *)
(* integer thresholds exactly, so t/1000 < mintemp is t < 1000 * mintemp.  *)
(* Readings are multiples of 125 millidegrees, which are exact binary      *)
(* fractions: for those the float arithmetic of the interpolation is exact *)
(* up to the final truncation, and the rational arithmetic below computes  *)
(* what the code computes.                                                 *)
(***************************************************************************)
EXTENDS Integers, FiniteSets, Sequences, TLC

\* ------------------------------------------------------------- bounds
\* Timer expiries, calls on the main thread and signals the environment delivers.
MaxEvents == 3
\* Started timers that self._timer no longer names.
MaxOrphans == 1

\* ---------------------------------------------------- program constants
DefaultMinTemp == 40
DefaultMaxTemp == 60
DefaultHysteresis == 3
DefaultMinDC == 20
DefaultMaxDC == 100
DefaultSleepTime == 5
InitialDutyCycle == 100
FullDutyCycle == 100
OffDutyCycle == 0
InitialLastTemp == 0
MilliPerDegree == 1000

\* ------------------------------------------------------- environment
\* Sensor file contents (millidegrees) the model draws from.
Readings == {0, 39000, 40125, 50000, 61000}

Ctx == {"timer", "main"}

Keys == <<"MinTemp", "MaxTemp", "MinDC", "MaxDC", "Hysteresis", "SleepTime", "WriteFiles">>

NoKeys == [k \in {} |-> 0]

\* A configuration file: whether it holds the [RPiFanControl] section, the
\* recognized keys it sets (WriteFiles as 0/1) and the keys whose text does
\* not parse (getint/getboolean raise ValueError there).
ConfigFiles ==
    { [section |-> FALSE, vals |-> NoKeys, bad |-> {}],
      [section |-> TRUE, vals |-> ("SleepTime" :> 1), bad |-> {}],
      [section |-> TRUE, vals |-> ("MaxTemp" :> 50), bad |-> {}],
      [section |-> TRUE, vals |-> ("MinDC" :> 0), bad |-> {}],
      [section |-> TRUE, vals |-> ("Hysteresis" :> 25), bad |-> {}],
      [section |-> TRUE, vals |-> ("MinTemp" :> 50 @@ "MaxTemp" :> 70), bad |-> {}],
      [section |-> TRUE, vals |-> ("WriteFiles" :> 0), bad |-> {}],
      [section |-> TRUE, vals |-> ("MinTemp" :> 45), bad |-> {"MaxTemp"}] }

\* The file the constructor read: here one without the section, which leaves the
\* constructor's defaults; every other configuration is reached by a reload.
InitFiles == {f \in ConfigFiles : ~f.section}

VARIABLES
    mintemp, maxtemp, hysteresis, mindc, maxdc, sleeptime, writeFiles,
    hystOn, running, lasttemp,
    pwm,          \* "none" (HardwarePWM raised), "started", "stopped"
    pwmdc,        \* the duty cycle last given to the PWM sink
    rtd,          \* RUNTIME_DIRECTORY: "unset", "ok", "nodir" (set, no such directory)
    tempExists, dcExists,
    timer,        \* self._timer: "none", "new", "pending", "spent", "cancelled"
    orphans,      \* started timers no longer referenced by self._timer, not yet fired
    op,           \* what each context is running: "none", "updateFan", "start"
    pc, temperature, acc1, acc2, dc,
    hpc, hfile, hstep,
    cfg0,         \* history: the thresholds held, between reloads, since a decision began
    err,          \* the last exception that left each context
    events,       \* environment events so far
    \* history
    decided, missing, unchanged, first, began, clean, hyst0, wrote, published,
    stopDone, pwmAfterStop, tickAfterStop

cfgvars == <<mintemp, maxtemp, hysteresis, mindc, maxdc, sleeptime, writeFiles>>
envvars == <<rtd>>
filevars == <<tempExists, dcExists>>
timervars == <<timer, orphans>>
localvars == <<op, pc, temperature, acc1, acc2, dc>>
handlervars == <<hpc, hfile, hstep>>
budgetvars == <<events>>
tickhist == <<decided, missing, unchanged, first, began, clean, hyst0, cfg0, wrote, published>>
stophist == <<stopDone, pwmAfterStop, tickAfterStop>>

vars == <<cfgvars, hystOn, running, lasttemp, pwm, pwmdc, envvars, filevars,
          timervars, localvars, handlervars, err, budgetvars, tickhist, stophist>>

\* ----------------------------------------------------------- helpers
Abs(n) == IF n < 0 THEN -n ELSE n

\* int(n / d): Python's int() of a float truncates toward zero.
TruncDiv(n, d) ==
    LET q == Abs(n) \div Abs(d)
    IN IF (n < 0) # (d < 0) THEN -q ELSE q

Mdeg(c) == c * MilliPerDegree

\* conf.getint(key, current) / conf.getboolean(key, current) for a parsing value.
Lookup(f, k, current) == IF k \in DOMAIN f.vals THEN f.vals[k] ELSE current

Defaults ==
    [mintemp |-> DefaultMinTemp, maxtemp |-> DefaultMaxTemp,
     hysteresis |-> DefaultHysteresis, mindc |-> DefaultMinDC,
     maxdc |-> DefaultMaxDC, sleeptime |-> DefaultSleepTime, writeFiles |-> TRUE]

\* The configuration the controller holds.
Config ==
    [mintemp |-> mintemp, maxtemp |-> maxtemp, hysteresis |-> hysteresis,
     mindc |-> mindc, maxdc |-> maxdc, sleeptime |-> sleeptime,
     writeFiles |-> writeFiles]

\* The fields of it that the decision of lines 176-188 reads.
Thresholds ==
    [mintemp |-> mintemp, maxtemp |-> maxtemp, hysteresis |-> hysteresis,
     mindc |-> mindc, maxdc |-> maxdc]

\* _readConfig run to completion on configuration c (the constructor's call).
ReadConfigAll(c, f) ==
    IF ~f.section THEN c
    ELSE [mintemp |-> Lookup(f, "MinTemp", c.mintemp),
          maxtemp |-> Lookup(f, "MaxTemp", c.maxtemp),
          mindc |-> Lookup(f, "MinDC", c.mindc),
          maxdc |-> Lookup(f, "MaxDC", c.maxdc),
          hysteresis |-> Lookup(f, "Hysteresis", c.hysteresis),
          sleeptime |-> Lookup(f, "SleepTime", c.sleeptime),
          writeFiles |-> IF "WriteFiles" \in DOMAIN f.vals
                           THEN f.vals["WriteFiles"] = 1 ELSE c.writeFiles]

\* The first index >= i of a key the file sets or garbles, 8 when there is none.
RECURSIVE NextKey(_, _)
NextKey(f, i) ==
    IF i > Len(Keys) THEN i
    ELSE IF Keys[i] \in DOMAIN f.vals \/ Keys[i] \in f.bad THEN i
    ELSE NextKey(f, i + 1)

NoOp == [c \in Ctx |-> "none"]
Idle == [c \in Ctx |-> "idle"]
Zero == [c \in Ctx |-> 0]
False == [c \in Ctx |-> FALSE]
NoErr == [c \in {"timer", "main", "handler"} |-> "none"]

\* ---------------------------------------------------------- __init__
\* The controller constructed with configuration file f, PWM sink p and
\* runtime directory r.
Constructed(f, p, r) ==
        LET cf == ReadConfigAll(Defaults, f) IN
        /\ mintemp = cf.mintemp /\ maxtemp = cf.maxtemp /\ hysteresis = cf.hysteresis
        /\ mindc = cf.mindc /\ maxdc = cf.maxdc /\ sleeptime = cf.sleeptime
        /\ writeFiles = cf.writeFiles
        /\ hystOn = FALSE /\ running = FALSE /\ lasttemp = InitialLastTemp
        /\ pwm = p /\ pwmdc = InitialDutyCycle
        /\ rtd = r /\ tempExists = FALSE /\ dcExists = FALSE
        /\ timer = "none" /\ orphans = 0
        /\ op = NoOp
        /\ pc = Idle /\ temperature = Zero /\ acc1 = Zero /\ acc2 = Zero /\ dc = Zero
        /\ hpc = "idle" /\ hfile = [section |-> FALSE, vals |-> NoKeys, bad |-> {}]
        /\ hstep = 0
        /\ err = NoErr
        /\ events = 0
        /\ decided = False /\ missing = False /\ unchanged = False /\ first = False /\ began = FALSE
        /\ clean = False /\ hyst0 = False /\ wrote = False /\ published = False
        /\ cfg0 = [c \in Ctx |-> {}]
        /\ stopDone = FALSE /\ pwmAfterStop = FALSE /\ tickAfterStop = FALSE

\* The PWM sink and the runtime directory the constructor found: all there, or
\* one of them missing.
Environments ==
    { <<"started", "ok">>, <<"none", "ok">>, <<"started", "unset">>, <<"started", "nodir">> }

Init == \E f \in InitFiles, e \in Environments : Constructed(f, e[1], e[2])

\* ------------------------------------------------- scheduling helpers
\* A handler runs on the main thread: the main thread's own call waits for it.
Runnable(c) == c = "main" => hpc = "idle"

At(c, p) == pc[c] = p /\ Runnable(c)

Goto(c, p) == pc' = [pc EXCEPT ![c] = p]

\* Another context wrote a field the decisions in flight read.
Disturb(others) == clean' = [c \in Ctx |-> IF c \in others THEN FALSE ELSE clean[c]]

\* The context's call is over (returned, or left by an exception).
Leave(c) ==
    /\ op' = [op EXCEPT ![c] = "none"]
    /\ pc' = [pc EXCEPT ![c] = "idle"]
    /\ temperature' = [temperature EXCEPT ![c] = 0]
    /\ acc1' = [acc1 EXCEPT ![c] = 0]
    /\ acc2' = [acc2 EXCEPT ![c] = 0]
    /\ dc' = [dc EXCEPT ![c] = 0]
    /\ decided' = [decided EXCEPT ![c] = FALSE]
    /\ missing' = [missing EXCEPT ![c] = FALSE]
    /\ unchanged' = [unchanged EXCEPT ![c] = FALSE]
    /\ first' = [first EXCEPT ![c] = FALSE]
    /\ clean' = [clean EXCEPT ![c] = FALSE]
    /\ hyst0' = [hyst0 EXCEPT ![c] = FALSE]
    /\ cfg0' = [cfg0 EXCEPT ![c] = {}]
    /\ wrote' = [wrote EXCEPT ![c] = FALSE]
    /\ published' = [published EXCEPT ![c] = FALSE]

\* An exception leaves the context's call.
Raise(c, e) ==
    /\ Leave(c)
    /\ err' = [err EXCEPT ![c] = e]

\* ------------------------------------------------------- updateFan
\* A tick begins in context c.
Begin(c) ==
    /\ op' = [op EXCEPT ![c] = "updateFan"]
    /\ Goto(c, "read")
    /\ first' = [first EXCEPT ![c] = ~began]
    /\ began' = TRUE
    /\ tickAfterStop' = (tickAfterStop \/ (c = "timer" /\ stopDone))

\* Timer thread: a started timer's interval elapses and it calls updateFan
\* (while fewer than limit events have been delivered).
FireWithin(limit) ==
    /\ pc["timer"] = "idle" /\ op["main"] # "updateFan" /\ events < limit
    /\ \/ timer = "pending" /\ timer' = "spent" /\ UNCHANGED orphans
       \/ orphans > 0 /\ orphans' = orphans - 1 /\ UNCHANGED timer
    /\ events' = events + 1
    /\ Begin("timer")
    /\ UNCHANGED <<cfgvars, hystOn, running, lasttemp, pwm, pwmdc, envvars, filevars,
                   temperature, acc1, acc2, dc, handlervars, err,
                   decided, missing, unchanged, clean, hyst0, cfg0, wrote, published, stopDone,
                   pwmAfterStop>>

Fire == FireWithin(MaxEvents)

\* Main thread: a direct call of updateFan().
CallUpdateFan ==
    /\ pc["main"] = "idle" /\ hpc = "idle" /\ pc["timer"] = "idle" /\ events < MaxEvents
    /\ events' = events + 1
    /\ Begin("main")
    /\ UNCHANGED <<cfgvars, hystOn, running, lasttemp, pwm, pwmdc, envvars, filevars,
                   timervars, temperature, acc1, acc2, dc, handlervars, err,
                   decided, missing, unchanged, clean, hyst0, cfg0, wrote, published, stopDone,
                   pwmAfterStop>>

\* Lines 165-170 with their outcome: the temperature t (in millidegrees) becomes
\* the tick's local, gone telling that it stands for a missing sensor file.
TakeReading(c, t, gone) ==
    /\ At(c, "read")
    /\ temperature' = [temperature EXCEPT ![c] = t]
    /\ missing' = [missing EXCEPT ![c] = gone]
    /\ unchanged' = [unchanged EXCEPT ![c] = (t = lasttemp)]
    /\ Goto(c, "cmp")
    /\ UNCHANGED <<cfgvars, hystOn, running, lasttemp, pwm, pwmdc, envvars, filevars,
                   timervars, op, acc1, acc2, dc, handlervars, err, budgetvars,
                   decided, first, began, clean, hyst0, cfg0, wrote, published, stophist>>

\* Lines 165-170: read the sensor, or take maxtemp when the file is not there.
ReadTemperature(c) ==
    \/ \E r \in Readings : TakeReading(c, r, FALSE)
    \/ TakeReading(c, Mdeg(maxtemp), TRUE)

\* Mutant: the unchanged-temperature check always passes.
AlwaysChanged(t, last) == TRUE

\* Line 173: has the temperature changed?
Changed(t, last) == t # last

\* Lines 173-175: skip the work on an unchanged temperature, else store it.
CompareLast(c) ==
    /\ At(c, "cmp")
    /\ IF Changed(temperature[c], lasttemp)
         THEN /\ lasttemp' = temperature[c]
              /\ decided' = [decided EXCEPT ![c] = TRUE]
              /\ clean' = [clean EXCEPT ![c] = TRUE]
              /\ Goto(c, "d1")
         ELSE /\ Goto(c, "run")
              /\ UNCHANGED <<lasttemp, decided, clean>>
    /\ hyst0' = [hyst0 EXCEPT ![c] = hystOn]
    /\ cfg0' = [cfg0 EXCEPT ![c] = IF Changed(temperature[c], lasttemp) THEN {Thresholds} ELSE {}]
    /\ UNCHANGED <<cfgvars, hystOn, running, pwm, pwmdc, envvars, filevars,
                   timervars, op, temperature, acc1, acc2, dc, handlervars, err,
                   budgetvars, missing, unchanged, first, began, wrote, published,
                   stophist>>

\* A step of the decision that reads fields and keeps the result in locals.
LocalStep(c) ==
    UNCHANGED <<cfgvars, hystOn, running, lasttemp, pwm, pwmdc, envvars, filevars,
                timervars, op, temperature, dc, handlervars, err, budgetvars,
                tickhist, stophist>>

\* Line 176, first operand: temperature < self.mintemp
BelowMin(c) ==
    /\ At(c, "d1")
    /\ Goto(c, IF temperature[c] < Mdeg(mintemp) THEN "off" ELSE "d2")
    /\ UNCHANGED <<acc1, acc2>>
    /\ LocalStep(c)

\* Line 176, second operand: self.mintemp is read again ...
BandReadMin(c) ==
    /\ At(c, "d2")
    /\ acc1' = [acc1 EXCEPT ![c] = mintemp]
    /\ Goto(c, "d3")
    /\ UNCHANGED acc2
    /\ LocalStep(c)

\* ... then self.hysteresis: temperature < self.mintemp + self.hysteresis
BandCompare(c) ==
    /\ At(c, "d3")
    /\ Goto(c, IF temperature[c] < Mdeg(acc1[c] + hysteresis) THEN "d4" ELSE "d5")
    /\ acc1' = [acc1 EXCEPT ![c] = 0]
    /\ UNCHANGED acc2
    /\ LocalStep(c)

\* Mutant: the test on hystOn is inverted.
BandHystInverted(c) ==
    /\ At(c, "d4")
    /\ Goto(c, IF hystOn = TRUE THEN "off" ELSE "d5")
    /\ UNCHANGED <<acc1, acc2>>
    /\ LocalStep(c)

\* ... and only then self.hystOn is False
BandHystOff(c) ==
    /\ At(c, "d4")
    /\ Goto(c, IF hystOn = FALSE THEN "off" ELSE "d5")
    /\ UNCHANGED <<acc1, acc2>>
    /\ LocalStep(c)

\* self.hystOn = v, with the duty cycle d of the branch when it is a constant.
SetHyst(c, v, d, next) ==
    /\ hystOn' = v
    /\ dc' = [dc EXCEPT ![c] = d]
    /\ Goto(c, next)
    /\ IF v # hystOn THEN Disturb(Ctx \ {c}) ELSE UNCHANGED clean
    /\ UNCHANGED <<cfgvars, running, lasttemp, pwm, pwmdc, envvars, filevars,
                   timervars, op, temperature, acc1, acc2, handlervars, err, budgetvars,
                   decided, missing, unchanged, first, began, hyst0, cfg0, wrote, published,
                   stophist>>

\* Mutant: the off branch forgets to reset hystOn.
BranchOffKeepsHyst(c) ==
    /\ At(c, "off")
    /\ SetHyst(c, hystOn, OffDutyCycle, "pwm")

\* Lines 177-179: the fan is off.
BranchOff(c) ==
    /\ At(c, "off")
    /\ SetHyst(c, FALSE, OffDutyCycle, "pwm")

\* Line 180: temperature >= self.maxtemp
AtLeastMax(c) ==
    /\ At(c, "d5")
    /\ Goto(c, IF temperature[c] >= Mdeg(maxtemp) THEN "full" ELSE "on")
    /\ UNCHANGED <<acc1, acc2>>
    /\ LocalStep(c)

\* Lines 181-183: the fan is fully on.
BranchFull(c) ==
    /\ At(c, "full")
    /\ SetHyst(c, TRUE, FullDutyCycle, "pwm")

\* Line 186: self.hystOn = True, before the duty cycle is computed.
BranchOn(c) ==
    /\ At(c, "on")
    /\ SetHyst(c, TRUE, dc[c], "i1")

\* Lines 187-188, in Python's evaluation order: temperature - self.mintemp
InterpDelta(c) ==
    /\ At(c, "i1")
    /\ acc1' = [acc1 EXCEPT ![c] = temperature[c] - Mdeg(mintemp)]
    /\ Goto(c, "i2")
    /\ UNCHANGED acc2
    /\ LocalStep(c)

\* self.maxdc
InterpMaxDC(c) ==
    /\ At(c, "i2")
    /\ acc2' = [acc2 EXCEPT ![c] = maxdc]
    /\ Goto(c, "i3")
    /\ UNCHANGED acc1
    /\ LocalStep(c)

\* (temperature - mintemp) * (maxdc - self.mindc)
InterpScale(c) ==
    /\ At(c, "i3")
    /\ acc1' = [acc1 EXCEPT ![c] = acc1[c] * (acc2[c] - mindc)]
    /\ acc2' = [acc2 EXCEPT ![c] = 0]
    /\ Goto(c, "i4")
    /\ LocalStep(c)

\* self.maxtemp
InterpMaxTemp(c) ==
    /\ At(c, "i4")
    /\ acc2' = [acc2 EXCEPT ![c] = maxtemp]
    /\ Goto(c, "i5")
    /\ UNCHANGED acc1
    /\ LocalStep(c)

\* (self.maxtemp - self.mintemp), the divisor: zero raises ZeroDivisionError.
InterpSpan(c) ==
    /\ At(c, "i5")
    /\ IF acc2[c] - mintemp = 0
         THEN /\ Raise(c, "ZeroDivisionError")
              /\ UNCHANGED <<cfgvars, hystOn, running, lasttemp, pwm, pwmdc, envvars,
                             filevars, timervars, handlervars, budgetvars, began, stophist>>
         ELSE /\ acc2' = [acc2 EXCEPT ![c] = Mdeg(acc2[c] - mintemp)]
              /\ Goto(c, "i6")
              /\ UNCHANGED acc1
              /\ LocalStep(c)

\* Mutant: the result is rounded to the nearest integer instead of truncated.
InterpolateRounded(num, den, base) == TruncDiv(2 * (num + base * den) + den, 2 * den)

\* Mutant: the slope is subtracted from mindc instead of added to it.
InterpolateFalling(num, den, base) == TruncDiv(base * den - num, den)

\* dc = int(quotient + self.mindc)
Interpolate(num, den, base) == TruncDiv(num + base * den, den)

\* Lines 176-188 run without interruption: the duty cycle for temperature t (in
\* millidegrees), prior hystOn h and configuration cf.
DutyCycleOf(cf, t, h) ==
    IF t < Mdeg(cf.mintemp) \/ (t < Mdeg(cf.mintemp + cf.hysteresis) /\ h = FALSE)
      THEN OffDutyCycle
    ELSE IF t >= Mdeg(cf.maxtemp)
      THEN FullDutyCycle
    ELSE Interpolate((t - Mdeg(cf.mintemp)) * (cf.maxdc - cf.mindc),
                     Mdeg(cf.maxtemp - cf.mintemp), cf.mindc)

InterpFinish(c) ==
    /\ At(c, "i6")
    /\ dc' = [dc EXCEPT ![c] = Interpolate(acc1[c], acc2[c], mindc)]
    /\ acc1' = [acc1 EXCEPT ![c] = 0]
    /\ acc2' = [acc2 EXCEPT ![c] = 0]
    /\ Goto(c, "pwm")
    /\ UNCHANGED <<cfgvars, hystOn, running, lasttemp, pwm, pwmdc, envvars, filevars,
                   timervars, op, temperature, handlervars, err, budgetvars,
                   tickhist, stophist>>

\* Lines 190-191: forward the duty cycle, unless the PWM sink is missing.
ChangeDutyCycle(c) ==
    /\ At(c, "pwm")
    /\ IF pwm # "none"
         THEN /\ pwmdc' = dc[c]
              /\ wrote' = [wrote EXCEPT ![c] = TRUE]
              /\ pwmAfterStop' = (pwmAfterStop \/ (c = "timer" /\ stopDone))
         ELSE UNCHANGED <<pwmdc, wrote, pwmAfterStop>>
    /\ Goto(c, "wf")
    /\ UNCHANGED <<cfgvars, hystOn, running, lasttemp, pwm, envvars, filevars,
                   timervars, op, temperature, acc1, acc2, dc, handlervars, err,
                   budgetvars, decided, missing, unchanged, first, began, clean, hyst0, cfg0,
                   published,
                   stopDone, tickAfterStop>>

\* Line 195: if self.writeFiles
CheckWriteFiles(c) ==
    /\ At(c, "wf")
    /\ Goto(c, IF writeFiles THEN "wt" ELSE "run")
    /\ UNCHANGED <<acc1, acc2>>
    /\ LocalStep(c)

\* open(path, "w") and write: path None raises TypeError (not caught), a missing
\* directory raises FileNotFoundError (caught and logged), else the file exists.
WriteFile(c, exists, next) ==
    IF rtd = "unset"
      THEN /\ Raise(c, "TypeError")
           /\ UNCHANGED <<cfgvars, hystOn, running, lasttemp, pwm, pwmdc, envvars,
                          timervars, handlervars, budgetvars, began, stophist>>
           /\ exists' = exists
      ELSE /\ exists' = (exists \/ rtd = "ok")
           /\ published' = [published EXCEPT ![c] = published[c] \/ rtd = "ok"]
           /\ Goto(c, next)
           /\ UNCHANGED <<cfgvars, hystOn, running, lasttemp, pwm, pwmdc, envvars,
                          timervars, op, temperature, acc1, acc2, dc, handlervars, err,
                          budgetvars, decided, missing, unchanged, first, began, clean, hyst0, cfg0,
                          wrote,
                          stophist>>

\* Lines 197-201
WriteTempFile(c) ==
    /\ At(c, "wt")
    /\ WriteFile(c, tempExists, "wd")
    /\ UNCHANGED dcExists

\* Lines 202-206
WriteDcFile(c) ==
    /\ At(c, "wd")
    /\ WriteFile(c, dcExists, "run")
    /\ UNCHANGED tempExists

\* ------------------------------------------------------- _runTimer
\* Line 115: if self.running
RunTimerCheck(c) ==
    /\ At(c, "run")
    /\ Goto(c, IF running THEN "mk" ELSE "ret")
    /\ UNCHANGED <<acc1, acc2>>
    /\ LocalStep(c)

\* Line 116: self._timer = Timer(...); a started timer it replaces stays pending.
RunTimerMake(c) ==
    /\ At(c, "mk")
    /\ timer = "pending" => orphans < MaxOrphans
    /\ timer' = "new"
    /\ orphans' = IF timer = "pending" THEN orphans + 1 ELSE orphans
    /\ Goto(c, "go")
    /\ UNCHANGED <<cfgvars, hystOn, running, lasttemp, pwm, pwmdc, envvars, filevars,
                   op, temperature, acc1, acc2, dc, handlervars, err, budgetvars,
                   tickhist, stophist>>

\* Line 117: self._timer.start(), on whatever timer self._timer now names; a
\* timer started twice raises RuntimeError, one cancelled before never fires.
RunTimerStart(c) ==
    /\ At(c, "go")
    /\ IF timer \in {"new", "cancelled"}
         THEN /\ timer' = IF timer = "new" THEN "pending" ELSE "spent"
              /\ Goto(c, "ret")
              /\ UNCHANGED <<op, temperature, acc1, acc2, dc, err, tickhist>>
         ELSE /\ Raise(c, "RuntimeError")
              /\ UNCHANGED <<timer, began>>
    /\ UNCHANGED <<cfgvars, hystOn, running, lasttemp, pwm, pwmdc, envvars, filevars,
                   orphans, handlervars, budgetvars, stophist>>

\* The call returns.
Return(c) ==
    /\ At(c, "ret")
    /\ Leave(c)
    /\ UNCHANGED <<cfgvars, hystOn, running, lasttemp, pwm, pwmdc, envvars, filevars,
                   timervars, handlervars, err, budgetvars, began, stophist>>

\* ----------------------------------------------------------- start
\* Main thread: a call of start().
CallStart ==
    /\ pc["main"] = "idle" /\ hpc = "idle" /\ events < MaxEvents
    /\ events' = events + 1
    /\ op' = [op EXCEPT !["main"] = "start"]
    /\ Goto("main", "s1")
    /\ UNCHANGED <<cfgvars, hystOn, running, lasttemp, pwm, pwmdc, envvars, filevars,
                   timervars, temperature, acc1, acc2, dc, handlervars, err,
                   tickhist, stophist>>

\* Lines 103-108: only when not running, set running and go on to _runTimer.
StartCheck ==
    /\ At("main", "s1")
    /\ IF running = FALSE
         THEN /\ running' = TRUE
              /\ stopDone' = FALSE
              /\ Goto("main", "run")
         ELSE /\ Goto("main", "ret")
              /\ UNCHANGED <<running, stopDone>>
    /\ UNCHANGED <<cfgvars, hystOn, lasttemp, pwm, pwmdc, envvars, filevars,
                   timervars, op, temperature, acc1, acc2, dc, handlervars, err,
                   budgetvars, tickhist, pwmAfterStop, tickAfterStop>>

\* ------------------------------------------------------------ _sig
NoFile == [section |-> FALSE, vals |-> NoKeys, bad |-> {}]

\* The handler returns to what the main thread was doing.
HandlerDone == hpc' = "idle" /\ hfile' = NoFile /\ hstep' = 0

\* An exception leaves the handler and, with it, the call the main thread was in.
HandlerRaise(e) ==
    /\ HandlerDone
    /\ Leave("main")
    /\ err' = [err EXCEPT !["handler"] = e]

\* SIGINT, SIGTERM or SIGHUP arrives: stop().
SignalStop ==
    /\ hpc = "idle" /\ events < MaxEvents
    /\ events' = events + 1
    /\ hpc' = "cancel"
    /\ UNCHANGED <<cfgvars, hystOn, running, lasttemp, pwm, pwmdc, envvars, filevars,
                   timervars, localvars, hfile, hstep, err, tickhist,
                   stophist>>

\* Line 150: self._timer.cancel(); no timer yet raises AttributeError
\* ('NoneType' object has no attribute 'cancel').
StopCancel ==
    /\ hpc = "cancel"
    /\ IF timer = "none"
         THEN /\ HandlerRaise("AttributeError(cancel)")
              /\ UNCHANGED timer
         ELSE /\ timer' = CASE timer = "pending" -> "spent"
                            [] timer = "new" -> "cancelled"
                            [] OTHER -> timer
              /\ hpc' = "flag"
              /\ UNCHANGED <<localvars, hfile, hstep, err, decided, missing, unchanged,
                             first, clean, hyst0, cfg0, wrote, published>>
    /\ UNCHANGED <<cfgvars, hystOn, running, lasttemp, pwm, pwmdc, envvars, filevars,
                   orphans, budgetvars, began, stophist>>

\* Line 151: self.running = False
StopFlag ==
    /\ hpc = "flag"
    /\ running' = FALSE
    /\ hpc' = "pwmstop"
    /\ UNCHANGED <<cfgvars, hystOn, lasttemp, pwm, pwmdc, envvars, filevars,
                   timervars, localvars, hfile, hstep, err, budgetvars, tickhist,
                   stophist>>

\* Line 152: self.pwm.stop(); no PWM sink raises AttributeError
\* ('NoneType' object has no attribute 'stop').
StopPwm ==
    /\ hpc = "pwmstop"
    /\ IF pwm = "none"
         THEN /\ HandlerRaise("AttributeError(stop)")
              /\ UNCHANGED pwm
         ELSE /\ pwm' = "stopped"
              /\ hpc' = "rmtemp"
              /\ UNCHANGED <<localvars, hfile, hstep, err, decided, missing, unchanged,
                             first, clean, hyst0, cfg0, wrote, published>>
    /\ UNCHANGED <<cfgvars, hystOn, running, lasttemp, pwmdc, envvars, filevars,
                   timervars, budgetvars, began, stophist>>

\* Lines 153-154: os.path.exists(None) raises TypeError; else the file is removed.
StopRemoveTemp ==
    /\ hpc = "rmtemp"
    /\ IF rtd = "unset"
         THEN /\ HandlerRaise("TypeError")
              /\ UNCHANGED tempExists
         ELSE /\ tempExists' = FALSE
              /\ hpc' = "rmdc"
              /\ UNCHANGED <<localvars, hfile, hstep, err, decided, missing, unchanged,
                             first, clean, hyst0, cfg0, wrote, published>>
    /\ UNCHANGED <<cfgvars, hystOn, running, lasttemp, pwm, pwmdc, envvars, dcExists,
                   timervars, budgetvars, began, stophist>>

\* Lines 155-156: the duty-cycle file is removed and stop() returns.
StopRemoveDc ==
    /\ hpc = "rmdc"
    /\ dcExists' = FALSE
    /\ stopDone' = TRUE
    /\ HandlerDone
    /\ UNCHANGED <<cfgvars, hystOn, running, lasttemp, pwm, pwmdc, envvars, tempExists,
                   timervars, localvars, err, budgetvars, tickhist, pwmAfterStop,
                   tickAfterStop>>

\* ------------------------------------------------------ _readConfig
\* Context c is between the first and the last read its decision makes of the
\* configuration (lines 176-188).
Deciding(c) ==
    pc[c] \in {"d1", "d2", "d3", "d4", "d5", "off", "full", "on",
               "i1", "i2", "i3", "i4", "i5", "i6"}

\* SIGUSR1 arrives: the file is parsed; without the section nothing is assigned.
SignalReload ==
    /\ hpc = "idle" /\ events < MaxEvents
    /\ events' = events + 1
    /\ \E f \in ConfigFiles :
          /\ hfile' = f
          /\ hstep' = IF f.section THEN NextKey(f, 1) ELSE Len(Keys) + 1
    /\ hpc' = "conf"
    /\ UNCHANGED <<cfgvars, hystOn, running, lasttemp, pwm, pwmdc, envvars, filevars,
                   timervars, localvars, err, tickhist, stophist>>

\* Mutant: the reload replaces the configuration, every other field going back
\* to the constructor's default.
SetFieldReplaces(k, v) ==
    /\ mintemp' = IF k = "MinTemp" THEN v ELSE DefaultMinTemp
    /\ maxtemp' = IF k = "MaxTemp" THEN v ELSE DefaultMaxTemp
    /\ mindc' = IF k = "MinDC" THEN v ELSE DefaultMinDC
    /\ maxdc' = IF k = "MaxDC" THEN v ELSE DefaultMaxDC
    /\ hysteresis' = IF k = "Hysteresis" THEN v ELSE DefaultHysteresis
    /\ sleeptime' = IF k = "SleepTime" THEN v ELSE DefaultSleepTime
    /\ writeFiles' = IF k = "WriteFiles" THEN v = 1 ELSE TRUE

\* self.<field> = value, for one key of lines 135-141.
SetField(k, v) ==
    /\ mintemp' = IF k = "MinTemp" THEN v ELSE mintemp
    /\ maxtemp' = IF k = "MaxTemp" THEN v ELSE maxtemp
    /\ mindc' = IF k = "MinDC" THEN v ELSE mindc
    /\ maxdc' = IF k = "MaxDC" THEN v ELSE maxdc
    /\ hysteresis' = IF k = "Hysteresis" THEN v ELSE hysteresis
    /\ sleeptime' = IF k = "SleepTime" THEN v ELSE sleeptime
    /\ writeFiles' = IF k = "WriteFiles" THEN v = 1 ELSE writeFiles

\* Lines 135-141, one assignment at a time in the code's order.  A key the file
\* does not hold is assigned its own current value: those assignments change
\* nothing and are passed over.
ReloadStep ==
    /\ hpc = "conf"
    /\ IF hstep > Len(Keys)
         THEN /\ HandlerDone
              /\ cfg0' = [c \in Ctx |-> IF Deciding(c) THEN cfg0[c] \cup {Thresholds} ELSE cfg0[c]]
              /\ UNCHANGED <<cfgvars, localvars, err, decided, missing, unchanged, first,
                             clean, hyst0, wrote, published>>
         ELSE IF Keys[hstep] \in hfile.bad
         THEN /\ HandlerRaise("ValueError")
              /\ UNCHANGED cfgvars
         ELSE /\ SetField(Keys[hstep], hfile.vals[Keys[hstep]])
              /\ hstep' = NextKey(hfile, hstep + 1)
              /\ IF cfgvars' # cfgvars THEN Disturb(Ctx) ELSE UNCHANGED clean
              /\ UNCHANGED <<hpc, hfile, localvars, err, decided, missing, unchanged,
                             first, hyst0, cfg0, wrote, published>>
    /\ UNCHANGED <<hystOn, running, lasttemp, pwm, pwmdc, envvars, filevars,
                   timervars, budgetvars, began, stophist>>

\* ------------------------------------------------------------- Next
\* The steps of updateFan and _runTimer after the sensor was read.
Steps(c) ==
    \/ CompareLast(c)
    \/ BelowMin(c) \/ BandReadMin(c) \/ BandCompare(c) \/ BandHystOff(c)
    \/ BranchOff(c) \/ AtLeastMax(c) \/ BranchFull(c) \/ BranchOn(c)
    \/ InterpDelta(c) \/ InterpMaxDC(c) \/ InterpScale(c) \/ InterpMaxTemp(c)
    \/ InterpSpan(c) \/ InterpFinish(c)
    \/ ChangeDutyCycle(c) \/ CheckWriteFiles(c) \/ WriteTempFile(c) \/ WriteDcFile(c)
    \/ RunTimerCheck(c) \/ RunTimerMake(c) \/ RunTimerStart(c) \/ Return(c)

Tick(c) == ReadTemperature(c) \/ Steps(c)

Next ==
    \/ Fire \/ CallUpdateFan \/ CallStart \/ StartCheck
    \/ SignalStop \/ StopCancel \/ StopFlag \/ StopPwm \/ StopRemoveTemp \/ StopRemoveDc
    \/ SignalReload \/ ReloadStep
    \/ \E c \in Ctx : Tick(c)

Spec == Init /\ [][Next]_vars

\* ------------------------------------------------- sequential operation
\* The controller is constructed from one of several configuration files and
\* started; the timer thread then runs its ticks one after the other, with no
\* signal and no direct call, the sensor holding the next temperature of
\* Scenario at each tick.
Scenario == <<39000, 42000, 61000, 41000, 39000>>

ScenarioFiles ==
    { [section |-> FALSE, vals |-> NoKeys, bad |-> {}],
      [section |-> TRUE, vals |-> ("MaxDC" :> 80), bad |-> {}],
      [section |-> TRUE, vals |-> ("MinDC" :> 0), bad |-> {}],
      [section |-> TRUE, vals |-> ("MinDC" :> 100), bad |-> {}],
      [section |-> TRUE, vals |-> ("Hysteresis" :> 0), bad |-> {}],
      [section |-> TRUE, vals |-> ("MinTemp" :> 38 @@ "MaxTemp" :> 62), bad |-> {}],
      [section |-> TRUE, vals |-> ("MinTemp" :> 41 @@ "MaxTemp" :> 42 @@ "Hysteresis" :> 0
                                   @@ "MinDC" :> 30 @@ "MaxDC" :> 70), bad |-> {}],
      [section |-> TRUE, vals |-> ("MinTemp" :> 35 @@ "MaxTemp" :> 100 @@ "Hysteresis" :> 7
                                   @@ "MinDC" :> 10 @@ "MaxDC" :> 90 @@ "WriteFiles" :> 0),
       bad |-> {}] }

ScenarioInit == \E f \in ScenarioFiles, e \in Environments : Constructed(f, e[1], e[2])

\* __main__: fan.start(), once.
ScenarioStart == events = 0 /\ CallStart

\* The k-th timer expiry is event k + 1, after start().
ScenarioFire == FireWithin(Len(Scenario) + 1)

\* Lines 165-167 with the sensor file holding the scenario's next temperature.
ReadScripted(c) == TakeReading(c, Scenario[events - 1], FALSE)

ScenarioNext ==
    \/ ScenarioStart \/ StartCheck \/ ScenarioFire
    \/ \E c \in Ctx : ReadScripted(c) \/ Steps(c)

SpecScenario == ScenarioInit /\ [][ScenarioNext]_vars

\* ------------------------------------------------------- properties
\* The configuration constraints of the data model: minTemp < maxTemp,
\* 0 <= hysteresis < maxTemp - minTemp, 0 <= minDC <= maxDC <= 100.
AllowedConfig ==
    /\ mintemp < maxtemp
    /\ 0 <= hysteresis /\ hysteresis < maxtemp - mintemp
    /\ 0 <= mindc /\ mindc <= maxdc /\ maxdc <= 100

\* The PWM sink and the runtime directory are there and nothing has raised.
Healthy == pwm # "none" /\ rtd = "ok" /\ \A x \in DOMAIN err : err[x] = "none"

\* Context c has computed a decision and is about to forward it, and no other
\* context changed the configuration or hystOn while it decided: the decision
\* is that of temperature[c], prior state hyst0[c] and the configuration as it is.
Decision(c) == op[c] = "updateFan" /\ pc[c] = "pwm" /\ clean[c]

\* Context c runs a tick and has gone past the comparison with lasttemp.
Compared(c) == op[c] = "updateFan" /\ pc[c] \notin {"read", "cmp"}

InBand(c) ==
    /\ Mdeg(mintemp) <= temperature[c]
    /\ temperature[c] < Mdeg(mintemp + hysteresis)

\* C1: after stop() has completed, the timer thread makes no PWM duty-cycle
\* write and begins no tick.
C1_NoTimerWorkAfterStop == ~pwmAfterStop /\ ~tickAfterStop

\* C2: a tick that found the sensor unavailable and took maxtemp in its place
\* has, when it has scheduled the next tick, left 100 as the duty cycle last
\* forwarded to the PWM sink.  (Stated for an allowed configuration that no
\* reload changed during the tick, in a healthy environment.)
C2_SensorMissingFullSpeed ==
    \A c \in Ctx :
        ( /\ op[c] = "updateFan" /\ pc[c] = "ret" /\ missing[c]
          /\ Healthy /\ AllowedConfig
          /\ temperature[c] = Mdeg(maxtemp)
          /\ decided[c] => clean[c] )
        => pwmdc = FullDutyCycle

\* C3: a decision with temperature >= maxTemp has duty cycle 100 and leaves
\* hystOn true, for every configuration the controller holds.
C3_AtLeastMaxFull ==
    \A c \in Ctx :
        (Decision(c) /\ Healthy /\ temperature[c] >= Mdeg(maxtemp))
        => (dc[c] = FullDutyCycle /\ hystOn)

\* C4: a decision with temperature < minTemp has duty cycle 0 and leaves hystOn
\* false, for every configuration and prior hysteresis state.
C4_BelowMinOff ==
    \A c \in Ctx :
        (Decision(c) /\ temperature[c] < Mdeg(mintemp))
        => (dc[c] = OffDutyCycle /\ ~hystOn)

C4_Witness ==
    \E c \in Ctx :
        /\ Decision(c) /\ temperature[c] < Mdeg(mintemp)
        /\ hyst0[c] /\ dc[c] = OffDutyCycle /\ ~hystOn

C6_Num(c) ==
    (temperature[c] - Mdeg(mintemp)) * (maxdc - mindc) + mindc * Mdeg(maxtemp - mintemp)

C6_Den == Mdeg(maxtemp - mintemp)

C6_InterpCase(c) ==
    /\ Decision(c)
    /\ Mdeg(mintemp) <= temperature[c] /\ temperature[c] < Mdeg(maxtemp)
    /\ hyst0[c] \/ temperature[c] >= Mdeg(mintemp + hysteresis)

C7_HystIffNonZero ==
    \A c \in Ctx :
        (Decision(c) /\ Healthy /\ AllowedConfig) => (hystOn <=> dc[c] # 0)

\* C8: a tick whose reading equals lasttemp decides nothing, makes no PWM write
\* and no publish and leaves lasttemp and hystOn as they were; a tick whose
\* reading differs stores it in lasttemp, so that the next tick with the same
\* reading is such a tick.
C8_UnchangedSkips ==
    \A c \in Ctx :
        Compared(c)
        => /\ unchanged[c]
              => /\ ~decided[c] /\ ~wrote[c] /\ ~published[c]
                 /\ pc[c] \in {"run", "mk", "go", "ret"}
                 /\ lasttemp = temperature[c] /\ hystOn = hyst0[c]
           /\ ~unchanged[c] => (decided[c] /\ lasttemp = temperature[c])

\* The second of two ticks that read 50 degrees: the first wrote 60, once.
C8_Witness ==
    \E c \in Ctx :
        /\ Compared(c) /\ unchanged[c] /\ pc[c] = "ret" /\ ~first[c]
        /\ temperature[c] = 50000 /\ pwm # "none" /\ pwmdc = 60

\* C9: the first tick after construction computes a decision and forwards a
\* duty cycle to the PWM sink.
C9_FirstTickDecides ==
    \A c \in Ctx :
        (op[c] = "updateFan" /\ first[c] /\ pc[c] = "run" /\ Healthy)
        => (decided[c] /\ wrote[c])

\* C10: once stop() has completed the two published files are absent, and
\* stay absent.
C10_AbsentAfterStop == stopDone => (~tempExists /\ ~dcExists)

\* C11: without RUNTIME_DIRECTORY (tempfile and dcfile are None) no tick and no
\* stop() attempts to use the paths: none is left by the TypeError that open(None)
\* and os.path.exists(None) raise, so every tick goes on to schedule the next
\* one and stop() completes its cleanup.
C11_NoDirectoryNoPublish ==
    (rtd = "unset" /\ pwm # "none") => \A x \in DOMAIN err : err[x] # "TypeError"

\* C12: without a PWM sink (HardwarePWM raised in the constructor), and with the
\* runtime directory there, stop() is not left by an unhandled error at its
\* call of the sink.
C12_NoPwmKeepsOperating ==
    (pwm = "none" /\ rtd = "ok") => err["handler"] # "AttributeError(stop)"

\* The value of the field a key of the file names (WriteFiles as 0/1).
FieldOf(k) ==
    CASE k = "MinTemp" -> mintemp
      [] k = "MaxTemp" -> maxtemp
      [] k = "MinDC" -> mindc
      [] k = "MaxDC" -> maxdc
      [] k = "Hysteresis" -> hysteresis
      [] k = "SleepTime" -> sleeptime
      [] k = "WriteFiles" -> IF writeFiles THEN 1 ELSE 0

\* C13: a reload merges field by field: a configuration field changes only in
\* a reload whose file holds its key, and then to the file's value; every field
\* whose key the file does not hold keeps the value it has, in every reload of
\* every sequence of reloads.
C13_ReloadMerges ==
    [][ \A i \in 1..Len(Keys) :
            FieldOf(Keys[i])' # FieldOf(Keys[i])
            => /\ hpc = "conf"
               /\ Keys[i] \in DOMAIN hfile.vals
               /\ FieldOf(Keys[i])' = hfile.vals[Keys[i]] ]_vars

\* A reload of the file that holds only SleepTime has made its assignments
\* while MaxTemp is the 50 of an earlier reload, not the default.
C13_Witness ==
    /\ hpc = "conf" /\ DOMAIN hfile.vals = {"SleepTime"} /\ hstep > Len(Keys)
    /\ sleeptime = 1 /\ maxtemp = 50 /\ mintemp = DefaultMinTemp
    /\ mindc = DefaultMinDC /\ maxdc = DefaultMaxDC
    /\ hysteresis = DefaultHysteresis /\ writeFiles

\* C14: a reload from a source without the section, or with a value that does
\* not parse, assigns no configuration field.
C14_MalformedLeavesUnchanged ==
    [][ (hpc = "conf" /\ (~hfile.section \/ hfile.bad # {})) => UNCHANGED cfgvars ]_vars

\* Temperatures from 0 to 110 degrees in steps of a quarter degree.
TempDomain == { 250 * i : i \in 0..440 }

\* C15: for a fixed prior hysteresis state and a fixed allowed configuration the
\* duty cycle of the decision is non-decreasing in the temperature: the duty
\* cycle a tick decided is the one of lines 176-188 for its temperature, no
\* lower temperature gives a higher duty cycle and no higher temperature a
\* lower one.
C15_Monotone ==
    \A c \in Ctx :
        (Decision(c) /\ AllowedConfig)
        => /\ dc[c] = DutyCycleOf(Config, temperature[c], hyst0[c])
           /\ \A t \in TempDomain :
                 /\ t <= temperature[c] => DutyCycleOf(Config, t, hyst0[c]) <= dc[c]
                 /\ t >= temperature[c] => DutyCycleOf(Config, t, hyst0[c]) >= dc[c]

\* An interpolated decision strictly between the duty cycles of a lower and of
\* a higher temperature, with the fan on before.
C15_Witness ==
    \E c \in Ctx :
        /\ Decision(c) /\ AllowedConfig /\ hyst0[c]
        /\ 0 < dc[c] /\ dc[c] < FullDutyCycle
        /\ \E t1, t2 \in TempDomain :
              /\ t1 < temperature[c] /\ temperature[c] < t2
              /\ 0 < DutyCycleOf(Config, t1, hyst0[c])
              /\ DutyCycleOf(Config, t1, hyst0[c]) < dc[c]
              /\ dc[c] < DutyCycleOf(Config, t2, hyst0[c])
              /\ DutyCycleOf(Config, t2, hyst0[c]) < FullDutyCycle

\* The duty cycles the scenario is to forward.
ScenarioDutyCycles == <<0, 0, 100, 24, 0>>

\* C16: a controller constructed with the default configuration (40, 60,
\* hysteresis 3, duty cycles 20 and 100) whose ticks read 39, 42, 61, 41, 39
\* degrees forwards 0, 0, 100, 24, 0: the k-th tick has made its PWM write when
\* it goes on to publish, and the duty cycle written is the k-th of these.
C16_Scenario ==
    \A k \in 1..Len(Scenario) :
        ( /\ Config = Defaults /\ pwm = "started"
          /\ op["timer"] = "updateFan" /\ pc["timer"] = "wf" /\ events = k + 1 )
        => /\ temperature["timer"] = Scenario[k]
           /\ wrote["timer"]
           /\ pwmdc = ScenarioDutyCycles[k]

\* The fifth tick has forwarded its 0, after the 24 of the fourth left hystOn true.
C16_Witness ==
    /\ Config = Defaults /\ pwm = "started" /\ rtd = "ok"
    /\ op["timer"] = "updateFan" /\ pc["timer"] = "wf" /\ events = Len(Scenario) + 1
    /\ wrote["timer"] /\ pwmdc = 0 /\ hyst0["timer"] /\ ~hystOn

\* C17: a tick of the timer thread and a reload do not race on the
\* configuration: the duty cycle the tick has decided is that of lines 176-188
\* for one single configuration, one the controller held before or after a
\* reload during the decision (the one held when the decision began, after a
\* reload completed, or now that the decision is complete and no reload is in
\* progress).
C17_SingleSnapshot ==
    ( /\ op["timer"] = "updateFan" /\ pc["timer"] = "pwm" /\ decided["timer"]
      /\ hpc = "idle" /\ Healthy )
    => \E cf \in cfg0["timer"] \cup {Thresholds} :
          dc["timer"] = DutyCycleOf(cf, temperature["timer"], hyst0["timer"])

\* C18: while the controller is running and nothing executes, a timer thread
\* that an exception has left is not the end of the cycle: a next tick is
\* pending.
C18_CycleAlive ==
    (running /\ hpc = "idle" /\ op = NoOp /\ err["timer"] # "none")
    => (timer = "pending" \/ orphans > 0)

\* C19: every started timer that has not fired yet is the one self._timer names.
C19_OnePendingTimer == orphans = 0

\* C20: the duty cycle last forwarded to the PWM sink is in 0..100 (with the
\* PWM sink and the runtime directory there and no exception raised before).
C20_DutyCycleInRange == Healthy => pwmdc \in 0..100

====
